---- MODULE Spec2Model ----
(***************************************************************************)
(* Walk-forward backtesting engine (src/backtest/engine.py):               *)
(* create_sliding_windows, rule_based_strategy, query_agent, simulate_pnl  *)
(* and run_backtest, with the launcher's arguments of run_backtest.py.     *)
(*                                                                         *)
(* Python values are modelled as follows.  A dict is a function on the     *)
(* set of its keys (c.get(k) tests k \in DOMAIN c).  A float is an exact   *)
(* rational <<n, d>> in lowest terms with d > 0; the rounding error of     *)
(* float arithmetic is modelled only in the sums of the aggregate, as the  *)
(* direction in which a mean half-way between two decimals is rounded.     *)
(* bb_position and confidence, which are fractions of one in the program,  *)
(* are carried in hundredths.                                              *)
(***************************************************************************)
EXTENDS Integers, Sequences, FiniteSets, TLC

----------------------------------------------------------------------------
(* Bounds of the model *)

\* candle counts of a direct call of create_sliding_windows: 0..MaxCandles
MaxCandles == 75
\* largest train_days / test_days drawn
MaxDays == 2
\* the window loop is cut after this many folds (stride_hours <= 0 never ends)
MaxWindows == 40
\* longest test window handed to the simulator
MaxTest == 3
\* longest test window handed to the oracle
MaxOracle == 2
\* longest test window of the two compared oracle calls
MaxPair == 2
\* longest decision array the service prints
MaxReply == 2
\* a run of run_backtest has up to MaxExtra candles more than two days
MaxExtra == 2
\* longest decision array the service prints for a fold of run_backtest
MaxFoldReply == 1
\* longest test window fed to simulate_pnl with malformed decisions
MaxMalformed == 2
\* most fold results aggregated
MaxAgg == 3
\* largest max_folds passed to run_backtest
MaxFoldsArg == 2

----------------------------------------------------------------------------
(* Program constants *)

HoursPerDay == 24

----------------------------------------------------------------------------
(* Python lists: 0-based indexing, negative indices, clamped slices *)

Min(a, b) == IF a <= b THEN a ELSE b
Max(a, b) == IF a >= b THEN a ELSE b

\* seq[i] raises IndexError outside -len..len-1
PyIndexOk(seq, i) == i >= -Len(seq) /\ i <= Len(seq) - 1
PyIndex(seq, i) == IF i >= 0 THEN seq[i + 1] ELSE seq[Len(seq) + i + 1]

\* a slice bound b is taken from the end when negative, then clamped to 0..len
PyBound(seq, b) == IF b < 0 THEN Max(Len(seq) + b, 0) ELSE Min(b, Len(seq))
PySlice(seq, a, b) == SubSeq(seq, PyBound(seq, a) + 1, PyBound(seq, b))

\* d.get(k, default)
Get(d, k, default) == IF k \in DOMAIN d THEN d[k] ELSE default

----------------------------------------------------------------------------
(* Exact rationals standing for Python floats *)

RECURSIVE Gcd(_, _)
Gcd(a, b) == IF b = 0 THEN a ELSE Gcd(b, a % b)
Abs(a) == IF a < 0 THEN -a ELSE a

Norm(n, d) ==
    LET s == IF d < 0 THEN -1 ELSE 1
        g == Gcd(Abs(n), Abs(d))
    IN  <<(s * n) \div g, (s * d) \div g>>
R(n) == <<n, 1>>
\* sums and products are reduced by common factors before multiplying
RAdd(x, y) ==
    LET g == Gcd(x[2], y[2])
    IN  Norm(x[1] * (y[2] \div g) + y[1] * (x[2] \div g), x[2] * (y[2] \div g))
RNeg(x) == <<-x[1], x[2]>>
RSub(x, y) == RAdd(x, RNeg(y))
RMul(x, y) ==
    LET g == Max(Gcd(Abs(x[1]), y[2]), 1)
        h == Max(Gcd(Abs(y[1]), x[2]), 1)
    IN  Norm((x[1] \div g) * (y[1] \div h), (x[2] \div h) * (y[2] \div g))
\* callers test y for zero first (ZeroDivisionError)
RDiv(x, y) == RMul(x, Norm(y[2], y[1]))
RAbs(x) == <<Abs(x[1]), x[2]>>
RIsZero(x) == x[1] = 0
RLt(x, y) ==
    LET g == Gcd(x[2], y[2])
    IN  x[1] * (y[2] \div g) < y[1] * (x[2] \div g)
RGt(x, y) == RLt(y, x)

Pow10(k) == IF k = 0 THEN 1 ELSE IF k = 1 THEN 10 ELSE IF k = 2 THEN 100
            ELSE IF k = 3 THEN 1000 ELSE 10000

\* long division of r/d to k more decimal digits: <<digits as an integer, remainder>>
RECURSIVE LongDiv(_, _, _, _)
LongDiv(acc, r, d, k) ==
    IF k = 0 THEN <<acc, r>>
    ELSE LongDiv(acc * 10 + ((r * 10) \div d), (r * 10) % d, d, k - 1)

\* round(x, k): nearest multiple of 10^-k, ties to even
Round(x, k) ==
    LET neg == x[1] < 0
        n == Abs(x[1])
        d == x[2]
        ld == LongDiv(n \div d, n % d, d, k)
        q == ld[1]
        r == ld[2]
        up == (2 * r > d) \/ (2 * r = d /\ q % 2 = 1)
        m == IF up THEN q + 1 ELSE q
    IN  Norm(IF neg THEN -m ELSE m, Pow10(k))

\* x = m / 2^j: a value a float holds exactly
RECURSIVE IsPow2(_)
IsPow2(d) == d = 1 \/ (d % 2 = 0 /\ IsPow2(d \div 2))
IsDyadic(x) == IsPow2(x[2])

\* round(y, k) of a float y whose exact value would be x and whose rounding
\* error has sign sgn: the error is far too small to matter unless x lies
\* half-way between two multiples of 10^-k, where it decides the direction
RoundTie(x, k, sgn) ==
    LET neg == x[1] < 0
        n == Abs(x[1])
        d == x[2]
        ld == LongDiv(n \div d, n % d, d, k)
        q == ld[1]
        tie == 2 * ld[2] = d
        bigger == (sgn > 0 /\ ~neg) \/ (sgn < 0 /\ neg)
        m == IF bigger THEN q + 1 ELSE q
    IN  IF tie /\ sgn # 0 THEN Norm(IF neg THEN -m ELSE m, Pow10(k)) ELSE Round(x, k)

----------------------------------------------------------------------------
(* State *)

VARIABLES
    \* create_sliding_windows: arguments, locals, position
    candles, train_days, test_days, stride_hours, wpc, start, windows,
    \* the number of the call of create_sliding_windows, and what the first returned
    win_calls, first_windows,
    \* run_backtest: max_folds, position, the truncated fold list, results
    max_folds, rpc, run_windows, results, aggregate,
    \* query_agent: the test window, what the service did, what was returned
    test_candles, opc, outcome, reply, decisions, service_calls,
    \* a second call on another test window of the same fold (same train summary)
    alt_candles, alt_outcome, alt_reply, alt_decisions,
    \* the aggregation run again on the same fold results in another order
    alt_results, alt_aggregate,
    \* simulate_pnl: the decisions argument, the locals, the loop index,
    \* the position in the function, the returned dict
    sim_decisions, sim, si, spc, pnl_result

winVars ==
    <<candles, train_days, test_days, stride_hours, wpc, start, windows, win_calls, first_windows>>
runVars == <<max_folds, rpc, run_windows, results, aggregate>>
oracleVars == <<test_candles, opc, outcome, reply, decisions, service_calls>>
altVars == <<alt_candles, alt_outcome, alt_reply, alt_decisions, alt_results, alt_aggregate>>
simVars == <<sim_decisions, sim, si, spc, pnl_result>>
vars == <<winVars, runVars, oracleVars, altVars, simVars>>

\* Python's None, for max_folds
None == -1

----------------------------------------------------------------------------
(* Candles of the dataset *)

\* an hourly candle; the timestamp is the hour number
Candle(t, close) == [timestamp |-> t, close |-> close]

\* the close of hour t: 100 and 50 in turn, twelve hours each
CloseAt(t) == IF (t \div 12) % 2 = 0 THEN 100 ELSE 50

\* the indicators of hour t: an RSI peak at hour 3 of each day, an RSI trough
\* at hour 15, nothing at the other hours
ReadingsAt(t) ==
    IF t % 24 = 3 THEN "rsi_14" :> 72
    ELSE IF t % 24 = 15 THEN "rsi_14" :> 25
    ELSE <<>>

\* n hourly candles, timestamps 0..n-1 in increasing order
Dataset(n) == [k \in 1..n |-> Candle(k - 1, CloseAt(k - 1)) @@ ReadingsAt(k - 1)]

\* the variables of the oracle, when no oracle call is modelled
OracleIdle ==
    /\ test_candles = <<>>
    /\ opc = "none"
    /\ outcome = "none"
    /\ reply = <<>>
    /\ decisions = <<>>
    /\ service_calls = 0
    /\ alt_candles = <<>>
    /\ alt_outcome = "none"
    /\ alt_reply = <<>>
    /\ alt_decisions = <<>>
    /\ alt_results = <<>>
    /\ alt_aggregate = <<>>

\* the variables of the simulator, when no simulation is modelled
SimIdle ==
    /\ sim_decisions = <<>>
    /\ sim = <<>>
    /\ si = 0
    /\ spc = "none"
    /\ pnl_result = <<>>

----------------------------------------------------------------------------
(* create_sliding_windows *)

TrainCandles == train_days * HoursPerDay
TestCandles == test_days * HoursPerDay
TotalNeeded == TrainCandles + TestCandles

\* the fold appended by one pass of the while loop
Window(s) ==
    LET train_end == s + TrainCandles
        test_end == train_end + TestCandles
    IN  [fold_id |-> Len(windows),
         train_start_idx |-> s,
         train_end_idx |-> train_end,
         test_start_idx |-> train_end,
         test_end_idx |-> Min(test_end, Len(candles)),
         train_candles |-> PySlice(candles, s, train_end),
         test_candles |-> PySlice(candles, train_end, test_end),
         train_period |-> [start |-> PyIndex(candles, s).timestamp,
                           end |-> PyIndex(candles, train_end - 1).timestamp],
         test_period |-> [start |-> PyIndex(candles, train_end).timestamp,
                          end |-> PyIndex(candles, Min(test_end, Len(candles)) - 1).timestamp]]

\* the four subscripts of one pass are all in range (else IndexError)
WindowIndexOk(s) ==
    LET train_end == s + TrainCandles
        test_end == train_end + TestCandles
    IN  /\ PyIndexOk(candles, s)
        /\ PyIndexOk(candles, train_end - 1)
        /\ PyIndexOk(candles, train_end)
        /\ PyIndexOk(candles, Min(test_end, Len(candles)) - 1)

\* a check against the train window alone
InsufficientTrainOnly == Len(candles) < TrainCandles

\* line 74: if len(candles) < total_needed
Insufficient == Len(candles) < TotalNeeded

\* a loop that runs while any test candle is left
LoopCondTrainOnly(s) == s + TrainCandles < Len(candles)

\* a loop that stops one start early
LoopCondStrict(s) == s + TotalNeeded < Len(candles)

\* while start + total_needed <= len(candles)
LoopCond(s) == s + TotalNeeded <= Len(candles)

\* an exception leaving create_sliding_windows leaves run_backtest too (no handler)
Unwind(exc) == IF rpc = "windows" THEN exc ELSE rpc

\* a list of folds that outlives the call (a mutable default argument)
WinCheckKeepsList ==
    /\ wpc = "entry"
    /\ IF Insufficient
       THEN /\ wpc' = "ValueError"
            /\ rpc' = Unwind("ValueError")
            /\ UNCHANGED <<start, windows>>
       ELSE /\ wpc' = "loop"
            /\ start' = 0
            /\ UNCHANGED <<windows, rpc>>
    /\ UNCHANGED <<candles, train_days, test_days, stride_hours, win_calls, first_windows>>
    /\ UNCHANGED <<max_folds, run_windows, results, aggregate>>
    /\ UNCHANGED <<oracleVars, altVars, simVars>>

\* lines 70-81: the length check, then windows = [], start = 0
WinCheck ==
    /\ wpc = "entry"
    /\ IF Insufficient
       THEN /\ wpc' = "ValueError"
            /\ rpc' = Unwind("ValueError")
            /\ UNCHANGED <<start, windows>>
       ELSE /\ wpc' = "loop"
            /\ start' = 0
            /\ windows' = <<>>
            /\ UNCHANGED rpc
    /\ UNCHANGED <<candles, train_days, test_days, stride_hours, win_calls, first_windows>>
    /\ UNCHANGED <<max_folds, run_windows, results, aggregate>>
    /\ UNCHANGED <<oracleVars, altVars, simVars>>

\* lines 82-104: one pass of the loop
WinIter ==
    /\ wpc = "loop"
    /\ LoopCond(start)
    /\ Len(windows) < MaxWindows
    /\ IF WindowIndexOk(start)
       THEN /\ windows' = Append(windows, Window(start))
            /\ start' = start + stride_hours
            /\ UNCHANGED <<wpc, rpc>>
       ELSE /\ wpc' = "IndexError"
            /\ rpc' = Unwind("IndexError")
            /\ UNCHANGED <<start, windows>>
    /\ UNCHANGED <<candles, train_days, test_days, stride_hours, win_calls, first_windows>>
    /\ UNCHANGED <<max_folds, run_windows, results, aggregate>>
    /\ UNCHANGED <<oracleVars, altVars, simVars>>

\* line 106: return windows
WinReturn ==
    /\ wpc = "loop"
    /\ ~LoopCond(start)
    /\ wpc' = "returned"
    /\ UNCHANGED <<candles, train_days, test_days, stride_hours, start, windows>>
    /\ UNCHANGED <<win_calls, first_windows>>
    /\ UNCHANGED <<runVars, oracleVars, altVars, simVars>>

\* the strides drawn: the launcher forwards any integer
Strides == {-HoursPerDay, 0, 1, 7, HoursPerDay, 2 * HoursPerDay}

\* a direct call of create_sliding_windows
InitWin ==
    /\ \E n \in 0..MaxCandles : candles = Dataset(n)
    /\ train_days \in 1..MaxDays
    /\ test_days \in 1..MaxDays
    /\ stride_hours \in Strides
    /\ wpc = "entry"
    /\ start = 0
    /\ windows = <<>>
    /\ win_calls = 1
    /\ first_windows = <<>>
    /\ max_folds = None
    /\ rpc = "none"
    /\ run_windows = <<>>
    /\ results = <<>>
    /\ aggregate = <<>>
    /\ OracleIdle
    /\ SimIdle

\* the caller keeps what the call returned and calls again with the same
\* arguments
WinCallAgain ==
    /\ wpc = "returned"
    /\ rpc = "none"
    /\ win_calls = 1
    /\ first_windows' = windows
    /\ win_calls' = 2
    /\ wpc' = "entry"
    /\ UNCHANGED <<candles, train_days, test_days, stride_hours, start, windows>>
    /\ UNCHANGED <<runVars, oracleVars, altVars, simVars>>

NextWin == WinCheck \/ WinIter \/ WinReturn \/ WinCallAgain

SpecWin == InitWin /\ [][NextWin]_vars

----------------------------------------------------------------------------
(* simulate_pnl, line 363-372: the decision used for test index i *)

\* the key of decision d, the k-th (from 0) of the list
DecisionKey(d, k) == Get(d, "candle_index", Get(d, "candle_idx", k))

DefaultDecision == [action |-> "HOLD", position_size_pct |-> 0]

\* decision_map.get(i, default): a later entry of the list replaces an earlier one
DecisionFor(ds, i) ==
    LET hits == {k \in 1..Len(ds) : DecisionKey(ds[k], k - 1) = i}
    IN  IF hits = {} THEN DefaultDecision
        ELSE ds[CHOOSE k \in hits : \A j \in hits : j <= k]

----------------------------------------------------------------------------
(* rule_based_strategy *)

\* what one candle's rules have settled so far; hp is has_position
Verdict(action, size, confidence, hp) ==
    [action |-> action, size |-> size, confidence |-> confidence, hp |-> hp]

\* lines 226-247: the defaults, then the RSI rules
RsiRule(c, hp) ==
    IF "rsi_14" \in DOMAIN c
    THEN IF c["rsi_14"] > 70 /\ hp THEN Verdict("INCREASE_SHORT", 5, 70, hp)
         ELSE IF c["rsi_14"] > 65 /\ ~hp THEN Verdict("SHORT", 10, 60, TRUE)
         ELSE IF c["rsi_14"] < 30 /\ hp THEN Verdict("CLOSE", 0, 65, FALSE)
         ELSE Verdict("HOLD", 0, 30, hp)
    ELSE Verdict("HOLD", 0, 30, hp)

\* a Bollinger block that is not gated by action == "HOLD"
BbRuleUngated(v, c) ==
    IF "bb_position" \in DOMAIN c
    THEN IF c["bb_position"] > 85 /\ ~v.hp THEN Verdict("SHORT", 8, 55, TRUE)
         ELSE IF c["bb_position"] < 15 /\ v.hp THEN Verdict("CLOSE", v.size, 55, FALSE)
         ELSE v
    ELSE v

\* lines 249-260: the Bollinger rules, only while the action is still HOLD
BbRule(v, c) ==
    IF v.action = "HOLD" /\ "bb_position" \in DOMAIN c
    THEN IF c["bb_position"] > 85 /\ ~v.hp THEN Verdict("SHORT", 8, 55, TRUE)
         ELSE IF c["bb_position"] < 15 /\ v.hp THEN Verdict("CLOSE", v.size, 55, FALSE)
         ELSE v
    ELSE v

\* a MACD rule that is not gated by has_position
MacdRuleAlways(v, c) ==
    IF v.action = "HOLD" /\ "macd_histogram" \in DOMAIN c
    THEN IF c["macd_histogram"] < -50 THEN Verdict("SHORT", 8, 50, TRUE) ELSE v
    ELSE v

\* lines 262-268: the MACD rule
MacdRule(v, c) ==
    IF v.action = "HOLD" /\ "macd_histogram" \in DOMAIN c /\ ~v.hp
    THEN IF c["macd_histogram"] < -50 THEN Verdict("SHORT", 8, 50, TRUE) ELSE v
    ELSE v

\* one pass of the loop over the test candles
RuleDecide(c, hp) == MacdRule(BbRule(RsiRule(c, hp), c), c)

\* lines 270-276 (the reasoning text is left out)
RuleDecision(i, v) ==
    [candle_index |-> i, action |-> v.action,
     position_size_pct |-> v.size, confidence |-> v.confidence]

RECURSIVE RuleLoop(_, _, _, _)
RuleLoop(cands, k, hp, acc) ==
    IF k > Len(cands) THEN [decisions |-> acc, hp |-> hp]
    ELSE LET v == RuleDecide(cands[k], hp)
         IN  RuleLoop(cands, k + 1, v.hp, Append(acc, RuleDecision(k - 1, v)))

\* lines 218-278: has_position starts False
RuleBasedStrategy(cands) == RuleLoop(cands, 1, FALSE, <<>>).decisions

\* has_position after the first k candles
RuleHasPosition(cands, k) == RuleLoop(SubSeq(cands, 1, k), 1, FALSE, <<>>).hp

----------------------------------------------------------------------------
(* format_test_candles and query_agent *)

\* a table cell: c.get(k, '') formatted
Cell(c, k) == IF k \in DOMAIN c THEN <<c[k]>> ELSE <<>>

\* lines 190-200: one row per candle, all rows in one table.  Prices are whole
\* numbers here, which the format ,.0f prints unchanged; the hour-number
\* timestamp stands for the text cut to the minute.
FormatTestCandles(cands) ==
    [k \in 1..Len(cands) |->
        <<k - 1, cands[k]["timestamp"], Get(cands[k], "close", 0),
          Cell(cands[k], "rsi_14"), Cell(cands[k], "macd_histogram"),
          Cell(cands[k], "bb_position")>>]

\* lines 284-299: the prompt holds the train summary and the whole test table
Prompt(train_summary, test_str) == <<train_summary, test_str>>

\* what the service call can do: time out, fail to start, exit non-zero, print
\* text that is no JSON, print JSON that is no array, print a JSON array
Outcomes == {"timeout", "launch_error", "nonzero_rc", "bad_json", "not_list", "list"}
Failures == Outcomes \ {"list"}

Returns(value) == [exc |-> "none", value |-> value]
Raises(exc) == [exc |-> exc, value |-> <<>>]

\* a handler for the timeout that lets it through
OnTimeoutRaise(raw) == Raises("TimeoutExpired")

\* lines 333-335
OnTimeout(raw) == Returns(RuleBasedStrategy(raw))

\* a list check that returns whatever was parsed
OnNotListReturnIt(raw) == Returns(<<>>)

\* lines 331, 340: parsed JSON that is no list falls through to the rules
OnNotList(raw) == Returns(RuleBasedStrategy(raw))

\* lines 301-340; raw is test_candles_raw or []
QueryAgent(oc, rep, raw) ==
    CASE oc = "nonzero_rc" -> Returns(RuleBasedStrategy(raw))
      [] oc = "list" -> Returns(rep)
      [] oc = "timeout" -> OnTimeout(raw)
      [] oc \in {"launch_error", "bad_json"} -> Returns(RuleBasedStrategy(raw))
      [] oc = "not_list" -> OnNotList(raw)

\* decisions a service answer is made of
ReplyDecision(i, action, size) ==
    [candle_index |-> i, action |-> action, position_size_pct |-> size]

\* the JSON arrays the service may print: any length up to n, whatever the table
ServiceReplies(n) ==
    UNION {{[k \in 1..m |-> ReplyDecision(k - 1, a[k][1], a[k][2])] :
              a \in [1..m -> {<<"HOLD", 0>>, <<"SHORT", 10>>}]} : m \in 0..n}

\* run_backtest lines 536-540: one call of query_agent on test_candles
QueryAgentCall ==
    /\ opc = "call"
    /\ \E oc \in Outcomes :
         \E rep \in (IF oc = "list" THEN ServiceReplies(MaxReply) ELSE {<<>>}) :
           LET r == QueryAgent(oc, rep, test_candles)
           IN  /\ outcome' = oc
               /\ reply' = rep
               /\ decisions' = r.value
               /\ opc' = IF r.exc = "none" THEN "returned" ELSE r.exc
               /\ service_calls' = service_calls + 1
    /\ UNCHANGED <<test_candles, winVars, runVars, altVars, simVars>>

\* indicator readings of a test candle (bb_position in hundredths)
RsiReadings == {25, 70, 72}
BbReadings == {10, 90}
MacdReadings == {-60}

Optional(key, values) == {<<>>} \cup {key :> v : v \in values}

\* indicator readings of a test candle: every combination of present indicators
Readings ==
    {r @@ b @@ m :
        r \in Optional("rsi_14", RsiReadings),
        b \in Optional("bb_position", BbReadings),
        m \in Optional("macd_histogram", MacdReadings)}

\* the test windows of up to maxlen hourly candles whose fields besides the
\* timestamp are drawn from Fields
WindowsOver(Fields, maxlen) ==
    UNION {{[k \in 1..n |-> ("timestamp" :> (k - 1)) @@ f[k]] : f \in [1..n -> Fields]} :
             n \in 0..maxlen}

OracleFields == {("close" :> 100) @@ r : r \in Readings}

WinIdle ==
    /\ candles = <<>>
    /\ train_days = 1
    /\ test_days = 1
    /\ stride_hours = 1
    /\ wpc = "none"
    /\ start = 0
    /\ windows = <<>>
    /\ win_calls = 1
    /\ first_windows = <<>>

RunIdle ==
    /\ max_folds = None
    /\ rpc = "none"
    /\ run_windows = <<>>
    /\ results = <<>>
    /\ aggregate = <<>>

InitOracle ==
    /\ WinIdle
    /\ RunIdle
    /\ test_candles \in WindowsOver(OracleFields, MaxOracle)
    /\ opc = "call"
    /\ outcome = "none"
    /\ reply = <<>>
    /\ decisions = <<>>
    /\ service_calls = 0
    /\ alt_candles = <<>>
    /\ alt_outcome = "none"
    /\ alt_reply = <<>>
    /\ alt_decisions = <<>>
    /\ alt_results = <<>>
    /\ alt_aggregate = <<>>
    /\ SimIdle

NextOracle == QueryAgentCall

SpecOracle == InitOracle /\ [][NextOracle]_vars

----------------------------------------------------------------------------
(* Properties of the oracle *)

\* C5: every decision sequence query_agent returns, from the service or from
\* the rules, has one decision per test candle, index k at place k.
OneDecisionPerCandle ==
    opc = "returned" =>
        /\ Len(decisions) = Len(test_candles)
        /\ \A k \in 1..Len(decisions) : DecisionKey(decisions[k], k - 1) = k - 1

\* C6: when the service call times out, cannot start, exits non-zero or prints
\* no decision array, query_agent raises nothing, returns the decisions of
\* rule_based_strategy on the test candles, and has called the service once.
FallbackOnFailure ==
    outcome \in Failures =>
        /\ opc = "returned"
        /\ decisions = RuleBasedStrategy(test_candles)
        /\ service_calls = 1

FallbackOnFailureWitness ==
    /\ outcome = "timeout"
    /\ opc = "returned"
    /\ Len(decisions) = 2
    /\ decisions[1]["action"] = "SHORT"

\* the rule table as the claim words it: the first matching rule of seven
TableRule(c, hp) ==
    LET hasRsi == "rsi_14" \in DOMAIN c
        hasBb == "bb_position" \in DOMAIN c
        hasMacd == "macd_histogram" \in DOMAIN c
        r1 == hasRsi /\ c["rsi_14"] > 70 /\ hp
        r2 == hasRsi /\ c["rsi_14"] > 65 /\ ~hp
        r3 == hasRsi /\ c["rsi_14"] < 30 /\ hp
        r4 == hasBb /\ c["bb_position"] > 85 /\ ~hp
        r5 == hasBb /\ c["bb_position"] < 15 /\ hp
        r6 == hasMacd /\ c["macd_histogram"] < -50 /\ ~hp
    IN  CASE r1 -> [rule |-> 1, action |-> "INCREASE_SHORT", size |-> 5, confidence |-> 70, hp |-> hp]
          [] ~r1 /\ r2 -> [rule |-> 2, action |-> "SHORT", size |-> 10, confidence |-> 60, hp |-> TRUE]
          [] ~r1 /\ ~r2 /\ r3 -> [rule |-> 3, action |-> "CLOSE", size |-> 0, confidence |-> 65, hp |-> FALSE]
          [] ~r1 /\ ~r2 /\ ~r3 /\ r4 -> [rule |-> 4, action |-> "SHORT", size |-> 8, confidence |-> 55, hp |-> TRUE]
          [] ~r1 /\ ~r2 /\ ~r3 /\ ~r4 /\ r5 -> [rule |-> 5, action |-> "CLOSE", size |-> 0, confidence |-> 55, hp |-> FALSE]
          [] ~r1 /\ ~r2 /\ ~r3 /\ ~r4 /\ ~r5 /\ r6 -> [rule |-> 6, action |-> "SHORT", size |-> 8, confidence |-> 50, hp |-> TRUE]
          [] OTHER -> [rule |-> 7, action |-> "HOLD", size |-> 0, confidence |-> 30, hp |-> hp]

\* has_position of the table's two-state machine after the first k candles
RECURSIVE TableHp(_, _)
TableHp(cands, k) == IF k = 0 THEN FALSE ELSE TableRule(cands[k], TableHp(cands, k - 1)).hp

\* the rule that decides candle k (from 1) under the table
TableAt(cands, k) == TableRule(cands[k], TableHp(cands, k - 1))

\* decision d is what table entry e prescribes (the claim gives CLOSE no size)
Prescribed(d, e) ==
    /\ d["action"] = e.action
    /\ d["confidence"] = e.confidence
    /\ (e.action # "CLOSE" => d["position_size_pct"] = e.size)

----------------------------------------------------------------------------
(* run_backtest lines 532-540 on two test windows of one fold *)

\* closes and RSI readings of the compared windows
PairFields == {("close" :> close) @@ r : close \in {90, 110}, r \in Optional("rsi_14", {72})}

\* the train summary is the same text for both windows
TrainSummary == "summary"

\* lines 536-540 for the second window (query_agent lets no exception out).  The service is a function of its
\* prompt: asked the same prompt again it prints the same array.
QueryAgentAlt ==
    /\ opc = "returned"
    /\ alt_outcome = "none"
    /\ \E oc \in Outcomes :
         \E rep \in (IF oc = "list" THEN ServiceReplies(MaxReply) ELSE {<<>>}) :
           LET r == QueryAgent(oc, rep, alt_candles)
               same == Prompt(TrainSummary, FormatTestCandles(alt_candles))
                         = Prompt(TrainSummary, FormatTestCandles(test_candles))
           IN  /\ (same /\ oc = "list" /\ outcome = "list") => rep = reply
               /\ alt_outcome' = oc
               /\ alt_reply' = rep
               /\ alt_decisions' = r.value
    /\ UNCHANGED <<alt_candles, alt_results, alt_aggregate, oracleVars, winVars, runVars, simVars>>

InitLookAhead ==
    /\ WinIdle
    /\ RunIdle
    /\ test_candles \in WindowsOver(PairFields, MaxPair)
    /\ alt_candles \in WindowsOver(PairFields, MaxPair)
    /\ Len(alt_candles) = Len(test_candles)
    /\ opc = "call"
    /\ outcome = "none"
    /\ reply = <<>>
    /\ decisions = <<>>
    /\ service_calls = 0
    /\ alt_outcome = "none"
    /\ alt_reply = <<>>
    /\ alt_decisions = <<>>
    /\ alt_results = <<>>
    /\ alt_aggregate = <<>>
    /\ SimIdle

NextLookAhead == QueryAgentCall \/ QueryAgentAlt

SpecLookAhead == InitLookAhead /\ [][NextLookAhead]_vars

\* the two windows hold the same candles at test indices 0..i
AgreeThrough(i) == SubSeq(test_candles, 1, i + 1) = SubSeq(alt_candles, 1, i + 1)

\* both calls were answered the same way: by the service, or by the rules
SamePath == (outcome = "list") <=> (alt_outcome = "list")

\* what the simulator reads of a decision
Effective(d) == <<Get(d, "action", "HOLD"), Get(d, "position_size_pct", 0)>>

\* C1: no look-ahead.  On either oracle path, two test windows of one fold that
\* agree on candles 0..i get the same decision at index i.
NoLookAhead ==
    (opc = "returned" /\ alt_outcome # "none" /\ SamePath) =>
        \A i \in 0..(Len(test_candles) - 1) :
            AgreeThrough(i) =>
                Effective(DecisionFor(decisions, i)) = Effective(DecisionFor(alt_decisions, i))

\* the part of C1 that the rules path does satisfy
NoLookAheadByRules ==
    (opc = "returned" /\ alt_outcome \in Failures /\ outcome \in Failures) =>
        \A i \in 0..(Len(test_candles) - 1) :
            AgreeThrough(i) =>
                Effective(DecisionFor(decisions, i)) = Effective(DecisionFor(alt_decisions, i))

----------------------------------------------------------------------------
(* simulate_pnl *)

\* lines 356-361.  exc names the exception that ended the function, if any.
SimStart ==
    [equity |-> R(1),
     position_size_usd |-> R(0),
     entry_price |-> R(0),
     total_realized_pnl |-> R(0),
     trades |-> <<>>,
     equity_curve |-> <<[candle_idx |-> -1, equity |-> R(1)]>>,
     exc |-> "none"]

\* the inverse-contract formula without the sign flip of a short
PnlUnsigned(size, entry, price) ==
    RMul(RAbs(size), RSub(RDiv(R(1), entry), RDiv(R(1), R(price))))

\* lines 378-380, 415-417, 433-435, 460-462: abs(size) * (1/entry - 1/price),
\* negated for a short
Pnl(size, entry, price) ==
    LET raw == RMul(RAbs(size), RSub(RDiv(R(1), entry), RDiv(R(1), R(price))))
    IN  IF RLt(size, R(0)) THEN RNeg(raw) ELSE raw

\* lines 374-380
Unrealized(st, price) ==
    IF ~RIsZero(st.position_size_usd) /\ RGt(st.entry_price, R(0))
    THEN Pnl(st.position_size_usd, st.entry_price, price)
    ELSE R(0)

\* sizing on the starting equity of the fold
NotionalOfStartingEquity(st, price, size_pct) == RMul(R(price), Norm(size_pct, 100))

\* lines 384, 397: equity * price * (size_pct / 100)
Notional(st, price, size_pct) == RMul(RMul(st.equity, R(price)), Norm(size_pct, 100))

\* lines 383-393
OpenShort(st, i, candle, size_pct) ==
    LET price == candle["close"]
        notional == Notional(st, price, size_pct)
    IN  [st EXCEPT !.position_size_usd = RNeg(notional),
                   !.entry_price = R(price),
                   !.trades = Append(@, [candle_idx |-> i, action |-> "SHORT", price |-> price,
                                         size_usd |-> notional,
                                         timestamp |-> candle["timestamp"]])]

\* an add whose entry price is the plain average of the old entry and the price
IncreaseShortPlainAverage(st, i, candle, size_pct) ==
    LET price == candle["close"]
        notional == RMul(RMul(st.equity, R(price)), Norm(size_pct, 100))
    IN  [st EXCEPT
            !.entry_price =
                IF RIsZero(st.position_size_usd) THEN R(price)
                ELSE RDiv(RAdd(st.entry_price, R(price)), R(2)),
            !.position_size_usd = RSub(@, notional),
            !.trades = Append(@, [candle_idx |-> i, action |-> "INCREASE_SHORT",
                                  price |-> price, size_usd |-> notional,
                                  timestamp |-> candle["timestamp"]])]

\* lines 396-411
IncreaseShort(st, i, candle, size_pct) ==
    LET price == candle["close"]
        notional == Notional(st, price, size_pct)
        held == RAbs(st.position_size_usd)
        total_size == RAdd(held, notional)
    IN  IF ~RIsZero(st.position_size_usd) /\ RIsZero(total_size)
        THEN [st EXCEPT !.exc = "ZeroDivisionError"]
        ELSE [st EXCEPT
                !.entry_price =
                    IF RIsZero(st.position_size_usd) THEN R(price)
                    ELSE RDiv(RAdd(RMul(held, st.entry_price), RMul(notional, R(price))),
                              total_size),
                !.position_size_usd = RSub(@, notional),
                !.trades = Append(@, [candle_idx |-> i, action |-> "INCREASE_SHORT",
                                      price |-> price, size_usd |-> notional,
                                      timestamp |-> candle["timestamp"]])]

\* a close that leaves the entry price of the closed position behind
ClosePositionKeepsEntry(st, i, candle) ==
    LET price == candle["close"]
        pnl == Pnl(st.position_size_usd, st.entry_price, price)
    IN  [st EXCEPT !.total_realized_pnl = RAdd(@, pnl),
                   !.equity = RAdd(@, pnl),
                   !.position_size_usd = R(0),
                   !.trades = Append(@, [candle_idx |-> i, action |-> "CLOSE",
                                         price |-> price, pnl_btc |-> pnl,
                                         timestamp |-> candle["timestamp"]])]

\* lines 414-428
ClosePosition(st, i, candle) ==
    LET price == candle["close"]
        pnl == Pnl(st.position_size_usd, st.entry_price, price)
    IN  IF RIsZero(st.entry_price)
        THEN [st EXCEPT !.exc = "ZeroDivisionError"]
        ELSE [st EXCEPT !.total_realized_pnl = RAdd(@, pnl),
                        !.equity = RAdd(@, pnl),
                        !.position_size_usd = R(0),
                        !.entry_price = R(0),
                        !.trades = Append(@, [candle_idx |-> i, action |-> "CLOSE",
                                              price |-> price, pnl_btc |-> pnl,
                                              timestamp |-> candle["timestamp"]])]

\* a reduce that realizes the PnL of the whole position while keeping half open
ReducePositionWhole(st, i, candle) ==
    LET price == candle["close"]
        half == RDiv(st.position_size_usd, R(2))
        pnl == Pnl(st.position_size_usd, st.entry_price, price)
    IN  IF RIsZero(st.entry_price)
        THEN [st EXCEPT !.exc = "ZeroDivisionError"]
        ELSE [st EXCEPT !.total_realized_pnl = RAdd(@, pnl),
                        !.equity = RAdd(@, pnl),
                        !.position_size_usd = RSub(@, half),
                        !.trades = Append(@, [candle_idx |-> i, action |-> "REDUCE",
                                              price |-> price, pnl_btc |-> pnl,
                                              timestamp |-> candle["timestamp"]])]

\* lines 431-445
ReducePosition(st, i, candle) ==
    LET price == candle["close"]
        half == RDiv(st.position_size_usd, R(2))
        raw == RMul(RAbs(half), RSub(RDiv(R(1), st.entry_price), RDiv(R(1), R(price))))
        pnl == IF RLt(st.position_size_usd, R(0)) THEN RNeg(raw) ELSE raw
    IN  IF RIsZero(st.entry_price)
        THEN [st EXCEPT !.exc = "ZeroDivisionError"]
        ELSE [st EXCEPT !.total_realized_pnl = RAdd(@, pnl),
                        !.equity = RAdd(@, pnl),
                        !.position_size_usd = RSub(@, half),
                        !.trades = Append(@, [candle_idx |-> i, action |-> "REDUCE",
                                              price |-> price, pnl_btc |-> pnl,
                                              timestamp |-> candle["timestamp"]])]

\* an if/elif chain whose last branch is a bare else
DispatchElseReduce(st, i, candle, action, size_pct) ==
    LET flat == RIsZero(st.position_size_usd)
    IN  IF action = "SHORT" /\ flat THEN OpenShort(st, i, candle, size_pct)
        ELSE IF action = "INCREASE_SHORT" /\ ~RGt(st.position_size_usd, R(0))
        THEN IncreaseShort(st, i, candle, size_pct)
        ELSE IF action = "CLOSE" /\ ~flat THEN ClosePosition(st, i, candle)
        ELSE IF ~flat THEN ReducePosition(st, i, candle)
        ELSE st

\* a chain in which SHORT on an open short adds to it
DispatchShortAdds(st, i, candle, action, size_pct) ==
    LET flat == RIsZero(st.position_size_usd)
    IN  IF action = "SHORT" /\ flat THEN OpenShort(st, i, candle, size_pct)
        ELSE IF action \in {"SHORT", "INCREASE_SHORT"} /\ ~RGt(st.position_size_usd, R(0))
        THEN IncreaseShort(st, i, candle, size_pct)
        ELSE IF action = "CLOSE" /\ ~flat THEN ClosePosition(st, i, candle)
        ELSE IF action = "REDUCE" /\ ~flat THEN ReducePosition(st, i, candle)
        ELSE st

\* lines 382-445: the if/elif chain on the action
Dispatch(st, i, candle, action, size_pct) ==
    LET flat == RIsZero(st.position_size_usd)
    IN  IF action = "SHORT" /\ flat THEN OpenShort(st, i, candle, size_pct)
        ELSE IF action = "INCREASE_SHORT" /\ ~RGt(st.position_size_usd, R(0))
        THEN IncreaseShort(st, i, candle, size_pct)
        ELSE IF action = "CLOSE" /\ ~flat THEN ClosePosition(st, i, candle)
        ELSE IF action = "REDUCE" /\ ~flat THEN ReducePosition(st, i, candle)
        ELSE st

\* lines 365-455: one pass of the loop, for test index i (from 0)
SimStep(st, i, candle, ds) ==
    LET price == candle["close"]
        decision == DecisionFor(ds, i)
        action == Get(decision, "action", "HOLD")
        size_pct == Get(decision, "position_size_pct", 0)
        unrealized_pnl == Unrealized(st, price)
        after == Dispatch(st, i, candle, action, size_pct)
    IN  IF price = 0 THEN st
        ELSE IF after.exc # "none" THEN after
        ELSE [after EXCEPT
                !.equity_curve = Append(@, [candle_idx |-> i,
                                            equity |-> RAdd(after.equity, unrealized_pnl),
                                            timestamp |-> candle["timestamp"],
                                            price |-> price,
                                            action |-> action])]

\* a final close that realizes the PnL without adding it to total_realized_pnl
FinalCloseUnrecorded(st, cands) ==
    IF ~RIsZero(st.position_size_usd) /\ cands # <<>>
    THEN LET final_price == PyIndex(cands, -1)["close"]
             pnl == Pnl(st.position_size_usd, st.entry_price, final_price)
         IN  IF final_price = 0 \/ RIsZero(st.entry_price)
             THEN [st EXCEPT !.exc = "ZeroDivisionError"]
             ELSE [st EXCEPT !.equity = RAdd(@, pnl),
                             !.trades = Append(@, [candle_idx |-> Len(cands) - 1,
                                                   action |-> "FINAL_CLOSE",
                                                   price |-> final_price,
                                                   pnl_btc |-> pnl])]
    ELSE st

\* lines 457-470: close what is still open at the last candle's close
FinalClose(st, cands) ==
    IF ~RIsZero(st.position_size_usd) /\ cands # <<>>
    THEN LET final_price == PyIndex(cands, -1)["close"]
             pnl == Pnl(st.position_size_usd, st.entry_price, final_price)
         IN  IF final_price = 0 \/ RIsZero(st.entry_price)
             THEN [st EXCEPT !.exc = "ZeroDivisionError"]
             ELSE [st EXCEPT !.total_realized_pnl = RAdd(@, pnl),
                             !.equity = RAdd(@, pnl),
                             !.trades = Append(@, [candle_idx |-> Len(cands) - 1,
                                                   action |-> "FINAL_CLOSE",
                                                   price |-> final_price,
                                                   pnl_btc |-> pnl])]
    ELSE st

\* lines 472-496 (the echoed test_period and price fields are left out)
Metrics(st, cands) ==
    LET start_price == IF cands # <<>> THEN PyIndex(cands, 0)["close"] ELSE 0
        end_price == IF cands # <<>> THEN PyIndex(cands, -1)["close"] ELSE 0
        btc_return == IF start_price # 0
                      THEN RMul(RSub(Norm(end_price, start_price), R(1)), R(100))
                      ELSE R(0)
        agent_return == RMul(RSub(st.equity, R(1)), R(100))
    IN  [starting_equity |-> R(1),
         final_equity |-> st.equity,
         total_realized_pnl |-> st.total_realized_pnl,
         agent_return_pct |-> Round(agent_return, 4),
         btc_return_pct |-> Round(btc_return, 4),
         alpha_pct |-> Round(RSub(agent_return, btc_return), 4),
         num_trades |-> Len(st.trades),
         trades |-> st.trades,
         equity_curve |-> st.equity_curve]

\* one pass of the loop
SimCandle ==
    /\ spc = "loop"
    /\ si < Len(test_candles)
    /\ LET after == SimStep(sim, si, test_candles[si + 1], sim_decisions)
       IN  /\ sim' = after
           /\ spc' = IF after.exc = "none" THEN "loop" ELSE after.exc
    /\ si' = si + 1
    /\ UNCHANGED <<sim_decisions, pnl_result>>
    /\ UNCHANGED <<winVars, runVars, oracleVars, altVars>>

\* after the loop: the final close, the metrics, the return
SimFinish ==
    /\ spc = "loop"
    /\ si = Len(test_candles)
    /\ LET closed == FinalClose(sim, test_candles)
       IN  /\ sim' = closed
           /\ IF closed.exc = "none"
              THEN /\ spc' = "done"
                   /\ pnl_result' = Metrics(closed, test_candles)
              ELSE /\ spc' = closed.exc
                   /\ UNCHANGED pnl_result
    /\ UNCHANGED <<sim_decisions, si>>
    /\ UNCHANGED <<winVars, runVars, oracleVars, altVars>>

\* closes of the test candles; 0 is a candle with no price
SimCloses == {0, 50, 100}
SimFields == {"close" :> close : close \in SimCloses}

\* the test candles of the worked example: closes 100, 90, 80
ScenarioCandles == <<Candle(0, 100), Candle(1, 90), Candle(2, 80)>>

\* a window whose returns have no finite decimal expansion: closes 90, 70
ThirdsCandles == <<Candle(0, 90), Candle(1, 70)>>

\* the decisions the simulator is fed: an action and a position_size_pct
SimChoices ==
    {<<"SHORT", 10>>, <<"HOLD", 0>>, <<"CLOSE", 0>>, <<"REDUCE", 0>>, <<"INCREASE_SHORT", 5>>}

\* decision lists for a window of n candles: one per index, for the first m <= n
DecisionLists(n) ==
    UNION {{[k \in 1..m |-> ReplyDecision(k - 1, a[k][1], a[k][2])] :
              a \in [1..m -> SimChoices]} : m \in 0..n}

\* a window whose price rises tenfold: closes 100, 100, 1000, 1000
SpikeCandles == <<Candle(0, 100), Candle(1, 100), Candle(2, 1000), Candle(3, 1000)>>

\* decisions that commit the whole equity
FullSizeChoices == {<<"SHORT", 100>>, <<"INCREASE_SHORT", 100>>, <<"CLOSE", 0>>}

FullSizeLists(n) ==
    UNION {{[k \in 1..m |-> ReplyDecision(k - 1, a[k][1], a[k][2])] :
              a \in [1..m -> FullSizeChoices]} : m \in 0..n}

InitSim ==
    /\ WinIdle
    /\ RunIdle
    /\ \/ /\ test_candles \in WindowsOver(SimFields, MaxTest) \cup {ScenarioCandles, ThirdsCandles}
          /\ sim_decisions \in DecisionLists(Len(test_candles))
       \/ /\ test_candles = SpikeCandles
          /\ sim_decisions \in FullSizeLists(Len(test_candles))
    /\ opc = "none"
    /\ outcome = "none"
    /\ reply = <<>>
    /\ decisions = <<>>
    /\ service_calls = 0
    /\ alt_candles = <<>>
    /\ alt_outcome = "none"
    /\ alt_reply = <<>>
    /\ alt_decisions = <<>>
    /\ alt_results = <<>>
    /\ alt_aggregate = <<>>
    /\ sim = SimStart
    /\ si = 0
    /\ spc = "loop"
    /\ pnl_result = <<>>

NextSim == SimCandle \/ SimFinish

SpecSim == InitSim /\ [][NextSim]_vars

----------------------------------------------------------------------------
(* Properties of the simulator *)

ScenarioDecisions ==
    <<ReplyDecision(0, "SHORT", 10), ReplyDecision(1, "HOLD", 0), ReplyDecision(2, "CLOSE", 0)>>

InScenario == test_candles = ScenarioCandles /\ sim_decisions = ScenarioDecisions

\* C8: the worked example.  Closes 100, 90, 80 with SHORT 10% at 0, HOLD at 1,
\* CLOSE at 2: a 10 USD short at entry 100 after candle 0, unrealized
\* 10*(1/90 - 1/100) shown at candle 1, 0.025 realized at candle 2, and the
\* result final_equity 1.025, agent 2.5, btc -20.0, alpha 22.5.
WorkedScenario ==
    InScenario =>
        /\ spc \in {"loop", "done"}
        /\ si >= 1 =>
             /\ sim.trades[1]["action"] = "SHORT"
             /\ sim.trades[1]["size_usd"] = R(10)
             /\ sim.trades[1]["price"] = 100
        /\ si \in {1, 2} =>
             /\ sim.position_size_usd = R(-10)
             /\ sim.entry_price = R(100)
             /\ sim.equity = R(1)
        /\ si >= 2 =>
             sim.equity_curve[3]["equity"]
                 = RAdd(R(1), RMul(R(10), RSub(Norm(1, 90), Norm(1, 100))))
        /\ si = 3 =>
             /\ Len(sim.trades) = 2
             /\ sim.trades[2]["action"] = "CLOSE"
             /\ sim.trades[2]["pnl_btc"] = Norm(25, 1000)
             /\ sim.total_realized_pnl = Norm(25, 1000)
        /\ spc = "done" =>
             /\ pnl_result.final_equity = Norm(1025, 1000)
             /\ pnl_result.agent_return_pct = Norm(25, 10)
             /\ pnl_result.btc_return_pct = R(-20)
             /\ pnl_result.alpha_pct = Norm(225, 10)

WorkedScenarioWitness == InScenario /\ spc = "done" /\ pnl_result.num_trades = 2

\* C9: a position still open after the last test candle is closed at that
\* candle's close, as a FINAL_CLOSE trade whose PnL is in the returned equity.
\* (The final close leaves position_size_usd as it was, so a position that was
\* open when the loop ended is still read there afterwards.)
ForceCloseAtEnd ==
    (spc # "loop" /\ ~RIsZero(sim.position_size_usd)) =>
        /\ spc = "done"
        /\ sim.trades # <<>>
        /\ LET last == sim.trades[Len(sim.trades)]
           IN  /\ last["action"] = "FINAL_CLOSE"
               /\ last["price"] = PyIndex(test_candles, -1)["close"]
               /\ pnl_result.final_equity = RAdd(R(1), pnl_result.total_realized_pnl)
               /\ pnl_result.trades = sim.trades

\* the action decided for test index i
ActionAt(i) == Get(DecisionFor(sim_decisions, i), "action", "HOLD")

AllHold == \A i \in 0..(Len(test_candles) - 1) : ActionAt(i) = "HOLD"

\* all-HOLD windows: no trade, nothing realized, equity 1.0, in every state
AllHoldFlat ==
    AllHold =>
        /\ spc \in {"loop", "done"}
        /\ sim.trades = <<>>
        /\ sim.total_realized_pnl = R(0)
        /\ sim.equity = R(1)
        /\ spc = "done" =>
             /\ pnl_result.num_trades = 0
             /\ pnl_result.total_realized_pnl = R(0)
             /\ pnl_result.final_equity = R(1)

\* a loop pass whose action is HOLD changes nothing but the equity curve
HoldStep ==
    (spc = "loop" /\ si < Len(test_candles) /\ ActionAt(si) = "HOLD") =>
        /\ sim'.equity = sim.equity
        /\ sim'.position_size_usd = sim.position_size_usd
        /\ sim'.entry_price = sim.entry_price
        /\ sim'.total_realized_pnl = sim.total_realized_pnl
        /\ sim'.trades = sim.trades
        /\ sim'.exc = sim.exc
        /\ SubSeq(sim'.equity_curve, 1, Len(sim.equity_curve)) = sim.equity_curve
        /\ Len(sim'.equity_curve) <= Len(sim.equity_curve) + 1

\* C10: all-HOLD (or all-missing) decisions give zero trades, zero realized PnL
\* and final_equity exactly 1.0, and a HOLD pass mutates no simulator state but
\* the equity curve.
HoldIsInert == []AllHoldFlat /\ [][HoldStep]_vars

\* a finished all-HOLD window, some decisions written and some missing
HoldIsInertWitness ==
    /\ spc = "done"
    /\ AllHold
    /\ Len(test_candles) = 3
    /\ Len(sim_decisions) = 2
    /\ Len(sim.equity_curve) = 4

----------------------------------------------------------------------------
(* Properties of create_sliding_windows *)

\* C2: every fold returned has train slice [s, s+train_count) and test slice
\* [s+train_count, s+train_count+test_count): the test slice starts where the
\* train slice ends, the two share no candle, and the test slice is whole.
FoldShape ==
    wpc = "returned" =>
        \A k \in 1..Len(windows) :
            LET w == windows[k]
                s == w.train_start_idx
            IN  /\ w.train_end_idx = s + TrainCandles
                /\ w.test_start_idx = w.train_end_idx
                /\ w.test_end_idx = s + TrainCandles + TestCandles
                /\ w.test_end_idx - w.test_start_idx = TestCandles
                /\ Len(w.test_candles) = TestCandles
                /\ w.train_candles = [j \in 1..TrainCandles |-> candles[s + j]]
                /\ w.test_candles = [j \in 1..TestCandles |-> candles[s + TrainCandles + j]]
                /\ {w.train_candles[j].timestamp : j \in 1..Len(w.train_candles)}
                     \cap {w.test_candles[j].timestamp : j \in 1..Len(w.test_candles)} = {}

\* overlapping test windows, the last one ending on the last candle
FoldShapeWitness ==
    /\ wpc = "returned"
    /\ Len(windows) >= 2
    /\ stride_hours < TestCandles
    /\ windows[Len(windows)].test_end_idx = Len(candles)

\* the fold numbers k with k*stride_hours + total <= len(candles)
FoldNumbers == {k \in 0..Len(candles) : k * stride_hours + TotalNeeded <= Len(candles)}

\* C3: with enough candles and stride_hours >= 1 the folds returned are those
\* starting at k*stride_hours, for every k with k*stride_hours + total <=
\* len(candles), in increasing k, the k-th with fold_id k.
FoldSequence ==
    (Len(candles) >= TotalNeeded /\ stride_hours >= 1) =>
        /\ wpc \in {"entry", "loop", "returned"}
        /\ wpc = "loop" =>
             /\ start = Len(windows) * stride_hours
             /\ Len(windows) <= Cardinality(FoldNumbers)
        /\ wpc = "returned" =>
             /\ Len(windows) = Cardinality(FoldNumbers)
             /\ \A k \in FoldNumbers :
                  /\ windows[k + 1].fold_id = k
                  /\ windows[k + 1].train_start_idx = k * stride_hours

\* three folds at stride 7, a fourth would pass the end of the data
FoldSequenceWitness ==
    /\ wpc = "returned"
    /\ stride_hours = 7
    /\ Len(windows) = 3
    /\ windows[3].train_start_idx = 14
    /\ 21 + TotalNeeded > Len(candles)

----------------------------------------------------------------------------
(* run_backtest *)

\* simulate_pnl as one call: the loop, then the final close and the metrics
RECURSIVE SimLoop(_, _, _, _)
SimLoop(st, i, cands, ds) ==
    IF i = Len(cands) \/ st.exc # "none" THEN st
    ELSE SimLoop(SimStep(st, i, cands[i + 1], ds), i + 1, cands, ds)

SimulatePnl(ds, cands) ==
    LET closed == FinalClose(SimLoop(SimStart, 0, cands, ds), cands)
    IN  IF closed.exc # "none" THEN Raises(closed.exc)
        ELSE Returns(Metrics(closed, cands))

RECURSIVE RSum(_)
RSum(xs) == IF xs = <<>> THEN R(0) ELSE RAdd(xs[1], RSum(Tail(xs)))

RMaxOf(xs) == xs[CHOOSE k \in 1..Len(xs) : \A j \in 1..Len(xs) : ~RGt(xs[j], xs[k])]
RMinOf(xs) == xs[CHOOSE k \in 1..Len(xs) : \A j \in 1..Len(xs) : ~RLt(xs[j], xs[k])]

\* the signs the rounding error of the float sum of xs, added left to right,
\* can have: none when every term is held exactly
SumSigns(xs) == IF \A k \in 1..Len(xs) : IsDyadic(xs[k]) THEN {0} ELSE {-1, 0, 1}

\* two lists whose float sums are the same number: 0 + a is exact and a + b
\* is b + a, so the first two terms may change places
SameFloatSum(xs, ys) ==
    \/ xs = ys
    \/ /\ Len(xs) = Len(ys)
       /\ Len(xs) >= 2
       /\ xs[1] = ys[2]
       /\ xs[2] = ys[1]
       /\ \A k \in 3..Len(xs) : xs[k] = ys[k]

\* sum(xs) / len(xs), rounded, or 0 for no fold; sgn is the sign of the error
\* of the float sum
Mean(xs, digits, sgn) ==
    IF xs # <<>> THEN RoundTie(RDiv(RSum(xs), R(Len(xs))), digits, sgn) ELSE R(0)

AgentReturns(rs) == [k \in 1..Len(rs) |-> rs[k].pnl.agent_return_pct]
BtcReturns(rs) == [k \in 1..Len(rs) |-> rs[k].pnl.btc_return_pct]
Alphas(rs) == [k \in 1..Len(rs) |-> rs[k].pnl.alpha_pct]
TradeCounts(rs) == [k \in 1..Len(rs) |-> R(rs[k].pnl.num_trades)]

\* the signs of the errors of the three float sums of the aggregate
\* (equal sums have equal errors)
SumErrors(rs) ==
    {e \in [agent : SumSigns(AgentReturns(rs)),
            btc : SumSigns(BtcReturns(rs)),
            alpha : SumSigns(Alphas(rs))] :
        /\ SameFloatSum(AgentReturns(rs), Alphas(rs)) => e.agent = e.alpha
        /\ SameFloatSum(AgentReturns(rs), BtcReturns(rs)) => e.agent = e.btc
        /\ SameFloatSum(BtcReturns(rs), Alphas(rs)) => e.btc = e.alpha}

\* a rate left as a fraction of one
RatePctFraction(count, total) == IF total # 0 THEN Round(Norm(count, total), 1) ELSE R(0)

\* count / total * 100, rounded to one digit, or 0 for no fold
RatePct(count, total) ==
    IF total # 0 THEN Round(RMul(Norm(count, total), R(100)), 1) ELSE R(0)

\* lines 564-585
Aggregate(rs, err) ==
    LET agent_returns == AgentReturns(rs)
        btc_returns == BtcReturns(rs)
        alphas == Alphas(rs)
        trade_counts == TradeCounts(rs)
        winning_folds == Cardinality({k \in 1..Len(rs) : RGt(agent_returns[k], R(0))})
        alpha_positive_folds == Cardinality({k \in 1..Len(rs) : RGt(alphas[k], R(0))})
    IN  [total_folds |-> Len(rs),
         winning_folds |-> winning_folds,
         win_rate_pct |-> RatePct(winning_folds, Len(rs)),
         alpha_positive_folds |-> alpha_positive_folds,
         alpha_positive_rate_pct |-> RatePct(alpha_positive_folds, Len(rs)),
         avg_agent_return_pct |-> Mean(agent_returns, 4, err.agent),
         avg_btc_return_pct |-> Mean(btc_returns, 4, err.btc),
         avg_alpha_pct |-> Mean(alphas, 4, err.alpha),
         max_agent_return_pct |-> IF rs # <<>> THEN Round(RMaxOf(agent_returns), 4) ELSE R(0),
         min_agent_return_pct |-> IF rs # <<>> THEN Round(RMinOf(agent_returns), 4) ELSE R(0),
         avg_trades_per_fold |-> Mean(trade_counts, 1, 0),
         total_trades |-> RSum(trade_counts)[1]]

\* lines 515-516: if max_folds: windows = windows[:max_folds]
Truncate ==
    /\ rpc = "windows"
    /\ wpc = "returned"
    /\ run_windows' = IF max_folds # None /\ max_folds # 0
                      THEN PySlice(windows, 0, max_folds)
                      ELSE windows
    /\ rpc' = "folds"
    /\ UNCHANGED <<max_folds, results, aggregate>>
    /\ UNCHANGED <<winVars, oracleVars, altVars, simVars>>

\* a decision array with a size out of range: an add of -10% after a SHORT
OutOfRangeReply ==
    <<ReplyDecision(0, "SHORT", 10), ReplyDecision(1, "INCREASE_SHORT", -10)>>

\* what the service may print for a fold; query_agent validates none of it
FoldReplies == ServiceReplies(MaxFoldReply) \cup {OutOfRangeReply}

\* lines 526-561: one fold, the oracle asked and its decisions simulated
RunFold ==
    /\ rpc = "folds"
    /\ Len(results) < Len(run_windows)
    /\ LET w == run_windows[Len(results) + 1]
       IN  \E oc \in Outcomes :
             \E rep \in (IF oc = "list" THEN FoldReplies ELSE {<<>>}) :
               LET q == QueryAgent(oc, rep, w.test_candles)
                   p == SimulatePnl(q.value, w.test_candles)
               IN  IF q.exc # "none"
                   THEN rpc' = q.exc /\ UNCHANGED results
                   ELSE IF p.exc # "none"
                   THEN rpc' = p.exc /\ UNCHANGED results
                   ELSE /\ results' = Append(results,
                                        [fold_id |-> w.fold_id,
                                         train_period |-> w.train_period,
                                         test_period |-> w.test_period,
                                         decisions |-> q.value,
                                         pnl |-> p.value])
                        /\ UNCHANGED rpc
    /\ UNCHANGED <<max_folds, run_windows, aggregate>>
    /\ UNCHANGED <<winVars, oracleVars, altVars, simVars>>

\* lines 563-608: the aggregate and the return
Finish ==
    /\ rpc = "folds"
    /\ Len(results) = Len(run_windows)
    /\ \E err \in SumErrors(results) : aggregate' = Aggregate(results, err)
    /\ rpc' = "done"
    /\ UNCHANGED <<max_folds, run_windows, results>>
    /\ UNCHANGED <<winVars, oracleVars, altVars, simVars>>

\* the candle counts of the runs: from one short of two days
RunCounts == {2 * HoursPerDay - 1 + e : e \in 0..MaxExtra}

Init ==
    /\ \E n \in RunCounts : candles = Dataset(n)
    /\ train_days \in 1..MaxDays
    /\ test_days \in 1..MaxDays
    /\ stride_hours \in {1, HoursPerDay}
    /\ wpc = "entry"
    /\ start = 0
    /\ windows = <<>>
    /\ win_calls = 1
    /\ first_windows = <<>>
    /\ max_folds \in {None} \cup 0..MaxFoldsArg
    /\ rpc = "windows"
    /\ run_windows = <<>>
    /\ results = <<>>
    /\ aggregate = <<>>
    /\ OracleIdle
    /\ SimIdle

Next == WinCheck \/ WinIter \/ WinReturn \/ Truncate \/ RunFold \/ Finish

Spec == Init /\ [][Next]_vars

\* C4: with fewer candles than (train_days + test_days) * 24,
\* create_sliding_windows raises the ValueError, it leaves run_backtest too,
\* and no fold is made, queried or simulated.
InsufficientDataFails ==
    Len(candles) < TotalNeeded =>
        /\ wpc \in {"entry", "ValueError"}
        /\ rpc = (IF wpc = "entry" THEN "windows" ELSE "ValueError")
        /\ windows = <<>>
        /\ run_windows = <<>>
        /\ results = <<>>
        /\ aggregate = <<>>

\* one candle short of a fold
InsufficientDataFailsWitness ==
    /\ Len(candles) = TotalNeeded - 1
    /\ wpc = "ValueError"
    /\ rpc = "ValueError"

----------------------------------------------------------------------------
(* Properties of the reported metrics *)

\* C11: in every result simulate_pnl returns, the reported alpha_pct is exactly
\* the reported agent_return_pct minus the reported btc_return_pct.
AlphaIsDifference ==
    spc = "done" =>
        pnl_result.alpha_pct = RSub(pnl_result.agent_return_pct, pnl_result.btc_return_pct)

\* what the code does keep: alpha_pct is within one unit of the fourth digit
AlphaNearDifference ==
    spc = "done" =>
        LET diff == RSub(pnl_result.alpha_pct,
                         RSub(pnl_result.agent_return_pct, pnl_result.btc_return_pct))
        IN  ~RGt(RAbs(diff), Norm(1, 10000))

----------------------------------------------------------------------------
(* simulate_pnl on decisions as a service may print them *)

\* closes of priced candles
PricedFields == {"close" :> close : close \in {50, 100}}

\* decisions for test index i: no action, no size, an unknown action, no index,
\* the other index key, a negative size, an index outside the window, and a
\* well-formed SHORT
MalformedAt(i) ==
    {[candle_index |-> i],
     [candle_index |-> i, action |-> "SHORT"],
     [candle_index |-> i, action |-> "BUY", position_size_pct |-> 10],
     [action |-> "SHORT", position_size_pct |-> 10],
     [candle_idx |-> i, action |-> "CLOSE"],
     [candle_index |-> i, action |-> "INCREASE_SHORT", position_size_pct |-> -10],
     [candle_index |-> i + MaxMalformed + 1, action |-> "SHORT", position_size_pct |-> 10],
     ReplyDecision(i, "SHORT", 10)}

\* decision lists for a window of n candles, the k-th entry written for index k
MalformedLists(n) ==
    UNION {{s \in [1..m -> UNION {MalformedAt(j) : j \in 0..(n - 1)}] :
              \A k \in 1..m : s[k] \in MalformedAt(k - 1)} : m \in 0..n}

InitMalformed ==
    /\ WinIdle
    /\ RunIdle
    /\ test_candles \in WindowsOver(PricedFields, MaxMalformed)
    /\ opc = "none"
    /\ outcome = "none"
    /\ reply = <<>>
    /\ decisions = <<>>
    /\ service_calls = 0
    /\ alt_candles = <<>>
    /\ alt_outcome = "none"
    /\ alt_reply = <<>>
    /\ alt_decisions = <<>>
    /\ alt_results = <<>>
    /\ alt_aggregate = <<>>
    /\ sim_decisions \in MalformedLists(Len(test_candles))
    /\ sim = SimStart
    /\ si = 0
    /\ spc = "loop"
    /\ pnl_result = <<>>

SpecMalformed == InitMalformed /\ [][NextSim]_vars

\* every size written in the decisions is zero or more
SizesInRange ==
    \A k \in 1..Len(sim_decisions) : Get(sim_decisions[k], "position_size_pct", 0) >= 0

\* C12: simulate_pnl raises nothing whatever the decisions are, missing fields
\* and out-of-range values included.
NeverRaisesOnMalformed == spc \in {"loop", "done"}

\* with sizes in range no exception leaves simulate_pnl
NeverRaisesInRange == SizesInRange => spc \in {"loop", "done"}

\* a pass whose decision is absent, has no action or has an unknown action
\* appends no trade and leaves equity, position and entry price as they were
DefaultsToHold ==
    (spc = "loop" /\ si < Len(test_candles)
        /\ Get(DecisionFor(sim_decisions, si), "action", "HOLD")
             \notin {"SHORT", "INCREASE_SHORT", "CLOSE", "REDUCE"}) =>
        /\ sim'.trades = sim.trades
        /\ sim'.equity = sim.equity
        /\ sim'.position_size_usd = sim.position_size_usd
        /\ sim'.entry_price = sim.entry_price
        /\ sim'.exc = "none"

DefaultsToHoldAlways == [][DefaultsToHold]_vars

----------------------------------------------------------------------------
(* Properties of the position *)

\* an open position has a positive entry price
EntryPriceSet == ~RIsZero(sim.position_size_usd) => RGt(sim.entry_price, R(0))

\* C13: in every state of simulate_pnl an open position has entry_price > 0,
\* and so no PnL computation (unrealized, CLOSE, REDUCE, final close) divides
\* by zero.
NoDivisionByZero == EntryPriceSet /\ spc # "ZeroDivisionError"

----------------------------------------------------------------------------
(* Properties of a run *)

\* the aggregate of a finished run counts exactly the folds returned
AggregateConsistent ==
    rpc = "done" =>
        /\ DOMAIN aggregate # {}
        /\ aggregate.total_folds = Len(results)
        /\ aggregate.total_trades = RSum([k \in 1..Len(results) |-> R(results[k].pnl.num_trades)])[1]
        /\ aggregate.winning_folds =
             Cardinality({k \in 1..Len(results) : RGt(results[k].pnl.agent_return_pct, R(0))})
        /\ aggregate.alpha_positive_folds =
             Cardinality({k \in 1..Len(results) : RGt(results[k].pnl.alpha_pct, R(0))})

\* C14: a run of run_backtest ends either with the full result, its aggregate
\* consistent with the folds, or with the insufficient-data error, and in no
\* other way.
RunEndsInResultOrError ==
    /\ rpc \in {"windows", "folds", "done", "ValueError"}
    /\ AggregateConsistent

----------------------------------------------------------------------------
(* The aggregate of run_backtest over fold results *)

\* the metrics of a fold the aggregate reads, returns given in 1/10000 percent
PnlSample(agent, btc, trades) ==
    [agent_return_pct |-> Norm(agent, 10000),
     btc_return_pct |-> Norm(btc, 10000),
     alpha_pct |-> Norm(agent - btc, 10000),
     num_trades |-> trades]

FoldSamples ==
    {PnlSample(25000, -200000, 2), PnlSample(0, 100000, 0),
     PnlSample(-15000, -200000, 3), PnlSample(3332, 0, 1)}

\* the fold-result lists of up to n folds
FoldResultLists(n) ==
    UNION {{[k \in 1..m |-> [fold_id |-> k - 1, pnl |-> f[k]]] : f \in [1..m -> FoldSamples]} :
             m \in 0..n}

\* four folds whose mean return, -0.14995, lies half-way between two
\* multiples of 0.0001: returns -1.5, 0.7, 0.4, -0.1998
TieFolds ==
    <<[fold_id |-> 0, pnl |-> PnlSample(-15000, 0, 1)],
      [fold_id |-> 1, pnl |-> PnlSample(7000, 0, 1)],
      [fold_id |-> 2, pnl |-> PnlSample(4000, 0, 1)],
      [fold_id |-> 3, pnl |-> PnlSample(-1998, 0, 1)]>>

\* lines 563-585 run on the same fold results in another order
FinishAlt ==
    /\ rpc = "done"
    /\ DOMAIN alt_aggregate = {}
    /\ \E p \in Permutations(1..Len(results)) :
         \E err \in SumErrors(results) :
           LET perm == [k \in 1..Len(results) |-> results[p[k]]]
               agg == Aggregate(perm, err)
           IN  /\ SameFloatSum(AgentReturns(results), AgentReturns(perm))
                    => agg.avg_agent_return_pct = aggregate.avg_agent_return_pct
               /\ SameFloatSum(BtcReturns(results), BtcReturns(perm))
                    => agg.avg_btc_return_pct = aggregate.avg_btc_return_pct
               /\ SameFloatSum(Alphas(results), Alphas(perm))
                    => agg.avg_alpha_pct = aggregate.avg_alpha_pct
               /\ alt_results' = perm
               /\ alt_aggregate' = agg
    /\ UNCHANGED <<alt_candles, alt_outcome, alt_reply, alt_decisions>>
    /\ UNCHANGED <<winVars, runVars, oracleVars, simVars>>

InitAgg ==
    /\ WinIdle
    /\ OracleIdle
    /\ SimIdle
    /\ max_folds = None
    /\ rpc = "folds"
    /\ results \in FoldResultLists(MaxAgg) \cup {TieFolds}
    /\ run_windows = [k \in 1..Len(results) |-> [fold_id |-> k - 1]]
    /\ aggregate = <<>>

NextAgg == Finish \/ FinishAlt

SpecAgg == InitAgg /\ [][NextAgg]_vars

\* v is the multiple of 10^-k nearest to x
Nearest(v, x, k) ==
    /\ Pow10(k) % v[2] = 0
    /\ ~RGt(RMul(R(2), RAbs(RSub(v, x))), Norm(1, Pow10(k)))

\* C15: the aggregate has win rate count(agent_return_pct > 0) / total and
\* alpha-positive rate count(alpha_pct > 0) / total, as percentages, the mean,
\* minimum and maximum of agent_return_pct, the means of btc_return_pct and
\* alpha_pct, and the mean and total of the trade counts; over no folds every
\* field is zero and nothing is raised.
AggregateFormulas ==
    rpc = "done" =>
        LET n == Len(results)
            a == AgentReturns(results)
            wins == Cardinality({k \in 1..n : RGt(a[k], R(0))})
            alphaWins == Cardinality({k \in 1..n : RGt(Alphas(results)[k], R(0))})
            trades == RSum(TradeCounts(results))
        IN  /\ aggregate.total_folds = n
            /\ aggregate.winning_folds = wins
            /\ aggregate.alpha_positive_folds = alphaWins
            /\ aggregate.total_trades = trades[1]
            /\ IF n = 0
               THEN /\ aggregate.win_rate_pct = R(0)
                    /\ aggregate.alpha_positive_rate_pct = R(0)
                    /\ aggregate.avg_agent_return_pct = R(0)
                    /\ aggregate.avg_btc_return_pct = R(0)
                    /\ aggregate.avg_alpha_pct = R(0)
                    /\ aggregate.max_agent_return_pct = R(0)
                    /\ aggregate.min_agent_return_pct = R(0)
                    /\ aggregate.avg_trades_per_fold = R(0)
               ELSE /\ Nearest(aggregate.win_rate_pct, Norm(100 * wins, n), 1)
                    /\ Nearest(aggregate.alpha_positive_rate_pct, Norm(100 * alphaWins, n), 1)
                    /\ Nearest(aggregate.avg_agent_return_pct, RDiv(RSum(a), R(n)), 4)
                    /\ Nearest(aggregate.avg_btc_return_pct,
                               RDiv(RSum(BtcReturns(results)), R(n)), 4)
                    /\ Nearest(aggregate.avg_alpha_pct, RDiv(RSum(Alphas(results)), R(n)), 4)
                    /\ Nearest(aggregate.avg_trades_per_fold, RDiv(trades, R(n)), 1)
                    /\ \E k \in 1..n : aggregate.max_agent_return_pct = a[k]
                    /\ \E k \in 1..n : aggregate.min_agent_return_pct = a[k]
                    /\ \A k \in 1..n : /\ ~RGt(a[k], aggregate.max_agent_return_pct)
                                       /\ ~RLt(a[k], aggregate.min_agent_return_pct)

\* three folds, one of them won: a win rate of 33.3
AggregateFormulasWitness ==
    /\ rpc = "done"
    /\ Len(results) = 3
    /\ aggregate.winning_folds = 1
    /\ aggregate.win_rate_pct = Norm(333, 10)
    /\ aggregate.total_trades = 5

\* C16: the aggregate of a permutation of the fold results has every field
\* equal to that of the aggregate of the fold results.
AggregateOrderIndependent ==
    DOMAIN alt_aggregate # {} => alt_aggregate = aggregate

\* what a permutation does keep: every count, rate, extreme and total, and the
\* three means to within one unit of the fourth digit
AggregateOrderNearlyIndependent ==
    DOMAIN alt_aggregate # {} =>
        /\ \A f \in DOMAIN aggregate \ {"avg_agent_return_pct", "avg_btc_return_pct", "avg_alpha_pct"} :
             alt_aggregate[f] = aggregate[f]
        /\ \A f \in {"avg_agent_return_pct", "avg_btc_return_pct", "avg_alpha_pct"} :
             ~RGt(RAbs(RSub(alt_aggregate[f], aggregate[f])), Norm(1, 10000))

----------------------------------------------------------------------------
(* Two calls of create_sliding_windows *)

SecondCallAgrees == (win_calls = 2 /\ wpc = "returned") => windows = first_windows

ArgumentsKept ==
    /\ candles' = candles
    /\ train_days' = train_days
    /\ test_days' = test_days
    /\ stride_hours' = stride_hours

----------------------------------------------------------------------------
(* Properties of the trading actions *)

\* the loop is about to handle test index si, whose candle has a price, and
\* the decision for it names this action
Handling(action) ==
    /\ spc = "loop"
    /\ si < Len(test_candles)
    /\ test_candles[si + 1]["close"] # 0
    /\ ActionAt(si) = action

PriceNow == test_candles[si + 1]["close"]
SizeNow == Get(DecisionFor(sim_decisions, si), "position_size_pct", 0)

\* 1.0 plus what earlier CLOSE and REDUCE actions of the fold realized
RealizedEquity == RAdd(R(1), sim.total_realized_pnl)

\* the loop pass appended exactly this trade
Appended(trade) == sim'.trades = Append(sim.trades, trade)

ShortStep ==
    (Handling("SHORT") /\ RIsZero(sim.position_size_usd)) =>
        LET notional == RMul(RMul(RealizedEquity, R(PriceNow)), Norm(SizeNow, 100))
        IN  /\ sim'.position_size_usd = RNeg(notional)
            /\ sim'.entry_price = R(PriceNow)
            /\ Appended([candle_idx |-> si, action |-> "SHORT", price |-> PriceNow,
                         size_usd |-> notional,
                         timestamp |-> test_candles[si + 1]["timestamp"]])
            /\ sim'.equity = sim.equity
            /\ sim'.total_realized_pnl = sim.total_realized_pnl
            /\ sim'.exc = "none"

\* C18: SHORT on a flat position at price p with size s opens a short of
\* notional equity * p * s/100, with position_size_usd = -notional and
\* entry_price = p, and appends one trade; the equity is 1.0 plus the PnL
\* realized earlier in the fold, so a SHORT after a CLOSE is sized on the
\* equity after that CLOSE.
ShortOpensOnRealizedEquity == [][ShortStep]_vars

\* SHORT at 100, CLOSE at 50 (equity 1.1), SHORT again at 50: notional 5.5
ShortOpensOnRealizedEquityWitness ==
    /\ Len(sim.trades) = 3
    /\ sim.trades[2]["action"] = "CLOSE"
    /\ sim.trades[3]["action"] = "SHORT"
    /\ sim.trades[3]["size_usd"] = Norm(11, 2)
    /\ sim.position_size_usd = Norm(-11, 2)
    /\ sim.equity = Norm(11, 10)

IncreaseStep ==
    (Handling("INCREASE_SHORT") /\ ~RGt(sim.position_size_usd, R(0))) =>
        LET notional == RMul(RMul(sim.equity, R(PriceNow)), Norm(SizeNow, 100))
            held == RAbs(sim.position_size_usd)
        IN  /\ sim'.exc = "none"
            /\ sim'.position_size_usd = RSub(sim.position_size_usd, notional)
            /\ Appended([candle_idx |-> si, action |-> "INCREASE_SHORT", price |-> PriceNow,
                         size_usd |-> notional,
                         timestamp |-> test_candles[si + 1]["timestamp"]])
            /\ sim'.equity = sim.equity
            /\ sim'.total_realized_pnl = sim.total_realized_pnl
            /\ IF RIsZero(sim.position_size_usd)
               THEN sim'.entry_price = R(PriceNow)
               ELSE /\ RMul(sim'.entry_price, RAdd(held, notional))
                         = RAdd(RMul(held, sim.entry_price), RMul(notional, R(PriceNow)))
                    /\ held = notional =>
                         RMul(R(2), sim'.entry_price) = RAdd(sim.entry_price, R(PriceNow))

\* C19: INCREASE_SHORT while flat opens at entry_price = price; on a short it
\* sets entry_price to the notional-weighted average of the old entry and the
\* price, lowers position_size_usd by the new notional and appends one trade;
\* two shorts of equal notional at p1 and p2 have entry price (p1 + p2) / 2.
IncreaseAveragesEntry == [][IncreaseStep]_vars

\* unequal notionals: a short of 10 at 100, then an add of 2.5 at 50: entry 90
IncreaseAveragesEntryWitness ==
    /\ Len(sim.trades) = 2
    /\ sim.trades[1]["action"] = "SHORT"
    /\ sim.trades[1]["size_usd"] = R(10)
    /\ sim.trades[2]["action"] = "INCREASE_SHORT"
    /\ sim.trades[2]["size_usd"] = Norm(5, 2)
    /\ sim.entry_price = R(90)
    /\ sim.position_size_usd = Norm(-25, 2)

\* two equal notionals: entry (50 + 100) / 2
EqualNotionalsReached ==
    /\ Len(sim.trades) = 2
    /\ sim.trades[1]["size_usd"] = R(5)
    /\ sim.trades[2]["action"] = "INCREASE_SHORT"
    /\ sim.trades[2]["size_usd"] = R(5)
    /\ sim.entry_price = R(75)

CloseStep ==
    (Handling("CLOSE") /\ ~RIsZero(sim.position_size_usd)) =>
        LET short == RLt(sim.position_size_usd, R(0))
            raw == RMul(RAbs(sim.position_size_usd),
                        RSub(RDiv(R(1), sim.entry_price), RDiv(R(1), R(PriceNow))))
            pnl == IF short THEN RNeg(raw) ELSE raw
        IN  /\ sim'.exc = "none"
            /\ sim'.total_realized_pnl = RAdd(sim.total_realized_pnl, pnl)
            /\ sim'.equity = RAdd(sim.equity, pnl)
            /\ sim'.position_size_usd = R(0)
            /\ sim'.entry_price = R(0)
            /\ Appended([candle_idx |-> si, action |-> "CLOSE", price |-> PriceNow,
                         pnl_btc |-> pnl,
                         timestamp |-> test_candles[si + 1]["timestamp"]])
            /\ short => (RGt(pnl, R(0)) <=> RLt(R(PriceNow), sim.entry_price))
            /\ R(PriceNow) = sim.entry_price =>
                 /\ pnl = R(0)
                 /\ sim'.equity = sim.equity

\* C20: CLOSE on an open position realizes |position_size_usd| * (1/entry_price
\* - 1/price), negated for a short, adds it to total_realized_pnl and to
\* equity, zeroes position_size_usd and entry_price and appends one trade with
\* that PnL; a short gains exactly when price < entry_price, and a SHORT closed
\* at its own price realizes nothing.
CloseRealizesPnl == [][CloseStep]_vars

\* a short of 10 opened at 100 and closed at 50 with a gain of 0.1
CloseRealizesPnlWitness ==
    /\ Len(sim.trades) = 2
    /\ sim.trades[1]["action"] = "SHORT"
    /\ sim.trades[1]["price"] = 100
    /\ sim.trades[2]["action"] = "CLOSE"
    /\ sim.trades[2]["price"] = 50
    /\ sim.trades[2]["pnl_btc"] = Norm(1, 10)
    /\ sim.equity = Norm(11, 10)

\* a short opened and closed at 100: nothing realized
ClosedAtOwnPriceReached ==
    /\ Len(sim.trades) = 2
    /\ sim.trades[1]["action"] = "SHORT"
    /\ sim.trades[2]["action"] = "CLOSE"
    /\ sim.trades[1]["price"] = sim.trades[2]["price"]
    /\ sim.trades[2]["pnl_btc"] = R(0)
    /\ sim.equity = R(1)

ReduceStep ==
    (Handling("REDUCE") /\ ~RIsZero(sim.position_size_usd)) =>
        LET short == RLt(sim.position_size_usd, R(0))
            whole == RMul(RAbs(sim.position_size_usd),
                          RSub(RDiv(R(1), sim.entry_price), RDiv(R(1), R(PriceNow))))
            close_pnl == IF short THEN RNeg(whole) ELSE whole
            pnl == RDiv(close_pnl, R(2))
            rest == RMul(RAbs(sim'.position_size_usd),
                         RSub(RDiv(R(1), sim'.entry_price), RDiv(R(1), R(PriceNow))))
            rest_pnl == IF RLt(sim'.position_size_usd, R(0)) THEN RNeg(rest) ELSE rest
        IN  /\ sim'.exc = "none"
            /\ sim'.total_realized_pnl = RAdd(sim.total_realized_pnl, pnl)
            /\ sim'.equity = RAdd(sim.equity, pnl)
            /\ RMul(R(2), sim'.position_size_usd) = sim.position_size_usd
            /\ ~RIsZero(sim'.position_size_usd)
            /\ sim'.entry_price = sim.entry_price
            /\ Appended([candle_idx |-> si, action |-> "REDUCE", price |-> PriceNow,
                         pnl_btc |-> pnl,
                         timestamp |-> test_candles[si + 1]["timestamp"]])
            /\ RAdd(pnl, rest_pnl) = close_pnl

\* C21: REDUCE on an open position realizes the PnL of exactly half the
\* position with the CLOSE formula, adds it to equity and total_realized_pnl,
\* halves position_size_usd (still nonzero), keeps entry_price and appends one
\* trade; what a CLOSE at the same price would then realize, added to it, is
\* what a single CLOSE at that price realizes.
ReduceRealizesHalf == [][ReduceStep]_vars

\* a short of 10 at 100, REDUCE at 50 (0.05), CLOSE at 50 (0.05): 0.1 in all
ReduceRealizesHalfWitness ==
    /\ Len(sim.trades) = 3
    /\ sim.trades[1]["action"] = "SHORT"
    /\ sim.trades[1]["price"] = 100
    /\ sim.trades[2]["action"] = "REDUCE"
    /\ sim.trades[2]["price"] = 50
    /\ sim.trades[2]["pnl_btc"] = Norm(1, 20)
    /\ sim.trades[3]["action"] = "CLOSE"
    /\ sim.trades[3]["price"] = 50
    /\ sim.trades[3]["pnl_btc"] = Norm(1, 20)
    /\ sim.total_realized_pnl = Norm(1, 10)

ShortAgainStep ==
    (Handling("SHORT") /\ RLt(sim.position_size_usd, R(0))) =>
        /\ sim'.exc = "none"
        /\ sim'.trades = sim.trades
        /\ sim'.equity = sim.equity
        /\ sim'.position_size_usd = sim.position_size_usd
        /\ sim'.entry_price = sim.entry_price
        /\ sim'.total_realized_pnl = sim.total_realized_pnl
        /\ Len(sim'.equity_curve) = Len(sim.equity_curve) + 1
        /\ PySlice(sim'.equity_curve, 0, Len(sim.equity_curve)) = sim.equity_curve
        /\ PyIndex(sim'.equity_curve, -1)["candle_idx"] = si
        /\ PyIndex(sim'.equity_curve, -1)["action"] = "SHORT"

\* C22: a SHORT decision while a short is open is a no-op: no trade is
\* appended, nothing is raised, and equity, position_size_usd, entry_price and
\* total_realized_pnl keep their values; only the equity-curve entry of the
\* candle is appended.
ShortWhileShortIsNoOp == [][ShortAgainStep]_vars

\* SHORT at 100 and SHORT again at 50: one trade, two SHORT curve points, the
\* position still the 10 opened at 100
ShortWhileShortIsNoOpWitness ==
    /\ Len(sim.trades) = 1
    /\ sim.trades[1]["action"] = "SHORT"
    /\ Len(sim.equity_curve) = 3
    /\ sim.equity_curve[2]["action"] = "SHORT"
    /\ sim.equity_curve[3]["action"] = "SHORT"
    /\ sim.equity_curve[3]["price"] = 50
    /\ sim.position_size_usd = R(-10)
    /\ sim.entry_price = R(100)

----------------------------------------------------------------------------
(* Properties of the equity curve *)

\* the curve has the pre-fold point and one point per candle handled so far
CurveIndices(curve, n) ==
    /\ Len(curve) = n + 1
    /\ \A k \in 1..Len(curve) : curve[k]["candle_idx"] = k - 2
    /\ curve[1]["equity"] = R(1)

AllPriced == \A k \in 1..Len(test_candles) : test_candles[k]["close"] # 0

\* C23: simulate_pnl appends exactly one equity-curve point for every test
\* candle, in candle order and whatever the action, after a pre-fold point
\* with equity 1.0: for a window of n candles the returned curve has n + 1
\* points with candle indices -1, 0, ..., n - 1.
CurvePointPerCandle ==
    /\ spc = "loop" => CurveIndices(sim.equity_curve, si)
    /\ spc = "done" => CurveIndices(pnl_result.equity_curve, Len(test_candles))

\* the same for windows in which every candle has a price
CurvePointPerPricedCandle == AllPriced => CurvePointPerCandle

\* a window of three priced candles returned with a curve of four points
CurvePointPerPricedCandleReached ==
    /\ spc = "done"
    /\ AllPriced
    /\ Len(test_candles) = 3
    /\ Len(pnl_result.equity_curve) = 4

\* the loop has just handled a candle that has a price
JustHandled ==
    /\ spc = "loop"
    /\ si > 0
    /\ test_candles[si]["close"] # 0

\* realized equity plus the unrealized PnL, at the price of the candle just
\* handled, of the position open after its action
MarkToMarket == RAdd(sim.equity, Unrealized(sim, test_candles[si]["close"]))

LastPoint(curve) == PyIndex(curve, -1)

\* C24: every equity-curve point is a mark-to-market value: the equity
\* recorded for candle i is the realized equity after candle i's action plus
\* the unrealized PnL at candle i's price of the position still open after
\* that action; on a CLOSE candle it is the post-close equity, and the last
\* point of a fold equals final_equity.
CurveIsMarkToMarket ==
    /\ JustHandled => LastPoint(sim.equity_curve)["equity"] = MarkToMarket
    /\ (spc = "done" /\ test_candles # <<>> /\ PyIndex(test_candles, -1)["close"] # 0) =>
           LastPoint(pnl_result.equity_curve)["equity"] = pnl_result.final_equity

\* the same for the candles whose action left the position as it was or
\* opened it: HOLD, and SHORT
CurveIsMarkToMarketOnHold ==
    (JustHandled /\ LastPoint(sim.equity_curve)["action"] \in {"HOLD", "SHORT"}) =>
        LastPoint(sim.equity_curve)["equity"] = MarkToMarket

\* a HOLD candle at 50 on a short of 10 opened at 100: the point is 1.1
CurveIsMarkToMarketOnHoldReached ==
    /\ JustHandled
    /\ LastPoint(sim.equity_curve)["action"] = "HOLD"
    /\ LastPoint(sim.equity_curve)["equity"] = Norm(11, 10)
    /\ sim.equity = R(1)

----------------------------------------------------------------------------
(* Properties of the position and of the realized accounting *)

\* C25: the simulated position is never long: for decisions with one of the
\* five actions, position_size_pct in [0, 100] and positive prices,
\* position_size_usd <= 0 in every state, also after a loss, a CLOSE and a
\* re-entry.
NeverLong == AllPriced => ~RGt(sim.position_size_usd, R(0))

\* the same while no equity-curve point has fallen to zero or below
NeverLongWhileSolvent ==
    (AllPriced /\ \A k \in 1..Len(sim.equity_curve) :
                     RGt(sim.equity_curve[k]["equity"], R(0))) =>
        ~RGt(sim.position_size_usd, R(0))

\* the pnl_btc values of the trades that realize PnL, in log order
RealizedPnls(trades) ==
    LET realizing == SelectSeq(trades,
                               LAMBDA t : t["action"] \in {"CLOSE", "REDUCE", "FINAL_CLOSE"})
    IN  [k \in 1..Len(realizing) |-> realizing[k]["pnl_btc"]]

\* the trades that open or add to a short carry no PnL
OpeningTradesCarryNoPnl(trades) ==
    \A k \in 1..Len(trades) :
        trades[k]["action"] \in {"SHORT", "INCREASE_SHORT"} =>
            "pnl_btc" \notin DOMAIN trades[k]

----------------------------------------------------------------------------
(* Termination of create_sliding_windows *)

\* a pass of the loop moves start forward
StartIncreasesStep ==
    (wpc = "loop" /\ LoopCond(start)) => (wpc' = "loop" /\ start' > start)

\* C26: create_sliding_windows terminates and returns a finite fold list for
\* every integer stride_hours whenever the data is sufficient: start strictly
\* increases on each pass of the loop until start + total exceeds len(candles).
StartStrictlyIncreases == [][StartIncreasesStep]_vars

\* the same for the strides of at least one hour
StartIncreasesForPositiveStride == [][stride_hours >= 1 => StartIncreasesStep]_vars

\* with a stride of at least one hour there is at most one fold per start
FoldsBoundedForPositiveStride ==
    (stride_hours >= 1 /\ wpc \in {"loop", "returned"}) =>
        /\ Len(windows) <= Len(candles) - TotalNeeded + 1
        /\ start = Len(windows) * stride_hours

\* a stride of one hour that returned every possible fold
FoldsBoundedReached ==
    /\ stride_hours = 1
    /\ wpc = "returned"
    /\ Len(windows) = Len(candles) - TotalNeeded + 1
    /\ Len(windows) > 1

----------------------------------------------------------------------------
(* The cap on the number of folds *)

\* the folds run are the first cap of the generated folds, in fold_id order
RunsFirst(cap) ==
    /\ Len(run_windows) = Min(cap, Len(windows))
    /\ \A k \in 1..Len(run_windows) : run_windows[k] = windows[k]
    /\ \A k \in 1..Len(results) : results[k]["fold_id"] = k - 1

\* C27: run_backtest caps the run at max_folds: for every integer
\* max_folds >= 0 it queries the oracle for and simulates exactly the first
\* min(max_folds, number of generated folds) folds, in fold_id order, and only
\* max_folds = None runs all generated folds.
RunCappedAtMaxFolds ==
    (rpc \in {"folds", "done"} /\ max_folds # None) =>
        /\ RunsFirst(max_folds)
        /\ rpc = "done" => Len(results) = Min(max_folds, Len(windows))

\* the same for max_folds of at least 1, and all folds for None
RunCappedAtPositiveMaxFolds ==
    /\ (rpc \in {"folds", "done"} /\ max_folds # None /\ max_folds >= 1) =>
           /\ RunsFirst(max_folds)
           /\ rpc = "done" => Len(results) = Min(max_folds, Len(windows))
    /\ (rpc \in {"folds", "done"} /\ max_folds = None) => run_windows = windows

\* two folds generated, max_folds = 1, one fold run
RunCappedReached ==
    /\ rpc = "done"
    /\ max_folds = 1
    /\ Len(windows) = 2
    /\ Len(results) = 1

----------------------------------------------------------------------------
(* A fold decided by the rules: rule_based_strategy, then simulate_pnl *)

MaxRule == 3

\* a candle's indicators: none, or one of them
RuleReadings ==
    {<<>>} \cup {"rsi_14" :> v : v \in RsiReadings}
           \cup {"bb_position" :> v : v \in BbReadings}
           \cup {"macd_histogram" :> v : v \in MacdReadings}

\* priced candles with any of these readings, and price-less candles with an
\* RSI reading
RuleFields ==
    {("close" :> 100) @@ r : r \in RuleReadings}
        \cup {("close" :> 0) @@ ("rsi_14" :> v) : v \in {25, 72}}

\* a window that takes the rules through open, add, close and open again
CycleCandles ==
    <<Candle(0, 100) @@ ("rsi_14" :> 70), Candle(1, 100) @@ ("rsi_14" :> 72),
      Candle(2, 50) @@ ("rsi_14" :> 25), Candle(3, 50) @@ ("bb_position" :> 90)>>

\* lines 540-544 when query_agent falls back to the rules: their decisions for
\* the fold's test candles are handed to simulate_pnl
RulesCall ==
    /\ opc = "rules"
    /\ decisions' = RuleBasedStrategy(test_candles)
    /\ sim_decisions' = RuleBasedStrategy(test_candles)
    /\ sim' = SimStart
    /\ si' = 0
    /\ spc' = "loop"
    /\ opc' = "done"
    /\ UNCHANGED <<test_candles, outcome, reply, service_calls, pnl_result>>
    /\ UNCHANGED <<winVars, runVars, altVars>>

InitRules ==
    /\ WinIdle
    /\ RunIdle
    /\ test_candles \in WindowsOver(RuleFields, MaxRule) \cup {CycleCandles}
    /\ opc = "rules"
    /\ outcome = "none"
    /\ reply = <<>>
    /\ decisions = <<>>
    /\ service_calls = 0
    /\ alt_candles = <<>>
    /\ alt_outcome = "none"
    /\ alt_reply = <<>>
    /\ alt_decisions = <<>>
    /\ alt_results = <<>>
    /\ alt_aggregate = <<>>
    /\ SimIdle

NextRules == RulesCall \/ SimCandle \/ SimFinish

SpecRules == InitRules /\ [][NextRules]_vars

\* the trades the loop logged at test index i
TradesAt(i) ==
    SelectSeq(sim.trades, LAMBDA t : t["candle_idx"] = i /\ t["action"] # "FINAL_CLOSE")

\* after the candles handled so far the simulator is short exactly when the
\* oracle's flag is set, and each decision left its own trade and no other
InStep ==
    /\ RLt(sim.position_size_usd, R(0)) <=> RuleHasPosition(test_candles, si)
    /\ \A i \in 0..(si - 1) :
          LET action == decisions[i + 1]["action"]
          IN  IF action = "HOLD" THEN TradesAt(i) = <<>>
              ELSE /\ Len(TradesAt(i)) = 1
                   /\ TradesAt(i)[1]["action"] = action

\* C28: oracle and simulator stay in step: when simulate_pnl runs on the
\* decisions of rule_based_strategy for the same test candles, after every
\* candle the simulator holds an open short exactly when has_position is true
\* after that candle, and every non-HOLD decision results in exactly one trade
\* at that candle.
OracleAndSimulatorInStep == spc = "loop" => InStep

\* the same for windows in which every candle has a price
InStepWhenPriced == (spc = "loop" /\ AllPriced) => InStep

\* the cycle window handled to its end: four decisions, four trades
InStepWhenPricedReached ==
    /\ spc = "loop"
    /\ test_candles = CycleCandles
    /\ si = 4
    /\ Len(sim.trades) = 4
    /\ RLt(sim.position_size_usd, R(0))

\* the actions of the decisions, in order
Actions == [k \in 1..Len(decisions) |-> decisions[k]["action"]]

\* SHORT or CLOSE
Turns == SelectSeq(Actions, LAMBDA a : a \in {"SHORT", "CLOSE"})

\* the state of the FLAT/SHORT machine after the first k decisions, read off
\* the output: short when the last SHORT or CLOSE among them is a SHORT
ShortAfter(k) ==
    \E i \in 1..k :
        /\ Actions[i] = "SHORT"
        /\ \A j \in (i + 1)..k : Actions[j] \notin {"SHORT", "CLOSE"}

\* C29: the decisions of rule_based_strategy are a run of a two-state
\* FLAT/SHORT machine: SHORT is emitted only when has_position is false,
\* INCREASE_SHORT and CLOSE only when it is true, REDUCE never; SHORT and CLOSE
\* alternate starting with SHORT, and every INCREASE_SHORT lies between a
\* SHORT and the next CLOSE.
RulesAreTwoStateMachine ==
    opc = "done" =>
        /\ Len(decisions) = Len(test_candles)
        /\ \A k \in 1..Len(decisions) :
              /\ Actions[k] \in {"HOLD", "SHORT", "INCREASE_SHORT", "CLOSE"}
              /\ Actions[k] = "SHORT" => ~RuleHasPosition(test_candles, k - 1)
              /\ Actions[k] \in {"INCREASE_SHORT", "CLOSE"} =>
                     RuleHasPosition(test_candles, k - 1)
              /\ Actions[k] = "INCREASE_SHORT" => ShortAfter(k - 1)
              /\ RuleHasPosition(test_candles, k) <=> ShortAfter(k)
        /\ \A k \in 1..Len(Turns) : Turns[k] = IF k % 2 = 1 THEN "SHORT" ELSE "CLOSE"

\* SHORT, INCREASE_SHORT, CLOSE, SHORT
RulesAreTwoStateMachineWitness ==
    /\ opc = "done"
    /\ Actions = <<"SHORT", "INCREASE_SHORT", "CLOSE", "SHORT">>

====
